---- MODULE Spec2Model ----
(***************************************************************************)
(* PipelineEnvironment (agentverse/environments/pipeline.py): the round    *)
(* controller.  One call of step runs one round: Role Assignment, Decision *)
(* Making (the only await), Execution, Evaluation, accept/reject, and the  *)
(* turn counter.  The four strategies are external collaborators: what     *)
(* they return (or raise) is an input chosen from the bounded sets below.  *)
(***************************************************************************)
EXTENDS Integers, Sequences, FiniteSets, TLC

\* ------------------------------------------------------------------ bounds
MaxTurns == 2      \* max_turn is drawn from 1..MaxTurns at construction
MaxCnt == 3        \* step is not called once cnt_turn reached MaxCnt
MaxRoster == 1     \* longest actor sequence the Role Assigner returns
MaxPlans == 2      \* longest candidate sequence the Decision Maker returns
MaxRatings == 3    \* longest rating sequence the Evaluator returns
MaxProcs == 2      \* step invocations that may exist at once

\* ------------------------------------------------------- program constants
Threshold == 8

NoAdvice == "No advice yet."
NoSolution == "No solution yet."
DynamicDecisionMaker == "agentverse.environments.decision_maker.dynamic.DynamicDecisionMaker"
ManagerAgent == "agentverse.agents.pipeline.manager.ManagerAgent"

\* ------------------------------------------------------------ input domains
Procs == 1..MaxProcs
Tasks == {"task0", "task1"}
PlanTexts == {"plan1", "plan2"}
Results == {"res1", "res2"}
EvalAdvices == {"ok", "retry"}
RatingValues == {7, 8, 9, 10}

SeqsUpTo(S, n) == UNION {[1..k -> S] : k \in 0..n}

\* A value handed around as an actor: its class and its name (for a str, the
\* class is "str" and the name is the text).
Actor(cls, name) == [cls |-> cls, name |-> name]
Str(text) == Actor("str", text)
NoManagerArg == Actor("-", "-")

\* self.agents without / with a MANAGER entry; the entry is a ManagerAgent or
\* (the annotation allows a list of agents) something of another type.
BaseRoles ==
    [ROLE_ASSIGNMENT |-> Actor("RoleAssignerAgent", "assigner"),
     SOLVER |-> Actor("SolverAgent", "solver"),
     CRITIC |-> <<Actor("CriticAgent", "critic")>>,
     EVALUATION |-> Actor("EvaluatorAgent", "evaluator")]
WithManager(m) ==
    [ROLE_ASSIGNMENT |-> BaseRoles.ROLE_ASSIGNMENT, SOLVER |-> BaseRoles.SOLVER,
     CRITIC |-> BaseRoles.CRITIC, EVALUATION |-> BaseRoles.EVALUATION,
     MANAGER |-> m]
RoleMappings ==
    {BaseRoles, WithManager(Actor(ManagerAgent, "manager")),
     WithManager(Actor("list", "managers"))}
\* [solver] + critics, lines 183-184, and what the Role Assigner may return.
GroupMembers == <<BaseRoles.SOLVER>> \o BaseRoles.CRITIC
Min(a, b) == IF a < b THEN a ELSE b
Rosters == {SubSeq(GroupMembers, 1, k) : k \in 0..Min(MaxRoster, Len(GroupMembers))}
Candidates == SeqsUpTo(PlanTexts, MaxPlans)
DecisionMakers ==
    {DynamicDecisionMaker,
     "agentverse.environments.decision_maker.vertical.VerticalDecisionMaker"}

\* A score as the Evaluator may return it: None, a bool, a bare number, a
\* string, or a list whose elements are ints or (non-numeric) strings.
IntElem(n) == [t |-> "int", v |-> n]
StrElem == [t |-> "str", v |-> 0]
RatingElems == {IntElem(n) : n \in RatingValues} \cup {StrElem}
Score(kind, b, n, seq) == [kind |-> kind, b |-> b, n |-> n, seq |-> seq]
NoneScore == Score("None", FALSE, 0, <<>>)
BoolScore(b) == Score("bool", b, 0, <<>>)
NumScore(n) == Score("int", FALSE, n, <<>>)
StrScore == Score("str", FALSE, 0, <<>>)
ListScore(s) == Score("list", FALSE, 0, s)
Scores ==
    {NoneScore, StrScore} \cup {BoolScore(b) : b \in BOOLEAN}
    \cup {NumScore(n) : n \in {7, 9}}
    \cup {ListScore(s) : s \in SeqsUpTo(RatingElems, MaxRatings)}

VARIABLES
    cnt_turn,          \* self.cnt_turn
    max_turn,          \* self.max_turn
    success,           \* self.success
    task_description,  \* self.task_description
    agents,            \* self.agents (the role mapping)
    decision_maker,    \* type(self.decision_maker)
    loc,               \* loc[p]: the frame of step invocation p
    ret,               \* what the last finished operation gave its caller
    last_advice        \* history: the advice the Evaluator returned in the last
                       \* completed round, until the next round has called its
                       \* Role Assigner and Decision Maker ("" when there is none)

ctrl == <<cnt_turn, max_turn, success, task_description, agents, decision_maker>>
vars == <<cnt_turn, max_turn, success, task_description, agents, decision_maker, loc, ret,
          last_advice>>

\* --------------------------------------------------------------- the frame
\* A collaborator call as the collaborator sees it.
Call(callee, ags, manager, prev, adv, task, arg) ==
    [callee |-> callee, agents |-> ags, manager |-> manager,
     previous_plan |-> prev, advice |-> adv, task_description |-> task,
     arg |-> arg]

LogEntry(key, name, content) == [key |-> key, name |-> name, content |-> content]

IdleFrame ==
    [pc |-> "idle", advice |-> "", result |-> "", previous_plan |-> "",
     logs |-> <<>>, agents |-> <<>>, plan |-> "", candidates |-> <<>>,
     calls |-> <<>>, cnt0 |-> 0, success0 |-> FALSE]

\* What a finished operation gave its caller: the exception or the returned
\* value (is_done: done; step: result, logs, success).  Of the returned logs the
\* three stage entries keep their source tag only; the evaluator's and the
\* system's entries are kept whole.  evaluated is the argument the Evaluator
\* received in that round.
Ret(op, exc, done, result, logs, succ, evaluated) ==
    [op |-> op, exc |-> exc, done |-> done, result |-> result, logs |-> logs,
     success |-> succ, evaluated |-> evaluated]
NoRet(op, exc) == Ret(op, exc, FALSE, "", <<>>, FALSE, "")
Returned(logs) ==
    [i \in DOMAIN logs |->
        IF logs[i].key = "module" THEN LogEntry("module", logs[i].name, "") ELSE logs[i]]

\* The event loop runs one coroutine at a time: p runs only while every other
\* invocation is not started or suspended at the await.
CanRun(p) == \A q \in Procs \ {p} : loc[q].pc \in {"idle", "await"}
AllIdle == \A q \in Procs : loc[q].pc = "idle"

Init ==
    /\ cnt_turn = 0
    /\ max_turn \in 1..MaxTurns
    /\ success = FALSE
    /\ task_description = "task0"
    /\ agents \in RoleMappings
    /\ decision_maker \in DecisionMakers
    /\ loc = [p \in Procs |-> IdleFrame]
    /\ ret = NoRet("__init__", "none")
    /\ last_advice = ""

\* Variant of StepCall: the turn is counted when the round starts.
StepCallCountsFirst(p) ==
    /\ loc[p].pc = "idle"
    /\ CanRun(p)
    /\ cnt_turn < MaxCnt
    /\ loc' = [loc EXCEPT ![p] =
                 [IdleFrame EXCEPT !.pc = "role_assign", !.advice = NoAdvice,
                                   !.result = "", !.previous_plan = NoSolution,
                                   !.logs = <<>>, !.cnt0 = cnt_turn,
                                   !.success0 = success]]
    /\ ret' = NoRet("step", "pending")
    /\ cnt_turn' = cnt_turn + 1
    /\ UNCHANGED <<max_turn, success, task_description, agents, decision_maker, last_advice>>

\* step, lines 87-93: the locals of a fresh invocation.
StepCall(p) ==
    /\ loc[p].pc = "idle"
    /\ CanRun(p)
    /\ cnt_turn < MaxCnt
    /\ loc' = [loc EXCEPT ![p] =
                 [IdleFrame EXCEPT !.pc = "role_assign", !.advice = NoAdvice,
                                   !.result = "", !.previous_plan = NoSolution,
                                   !.logs = <<>>, !.cnt0 = cnt_turn,
                                   !.success0 = success]]
    /\ ret' = NoRet("step", "pending")
    /\ UNCHANGED <<ctrl, last_advice>>

\* An exception leaves step: the frame is gone, no field was assigned.  logs
\* (what the round had logged when it was raised) is kept for the record only.
Abort(p, exc, logs) ==
    /\ loc' = [loc EXCEPT ![p] = IdleFrame]
    /\ ret' = Ret("step", exc, FALSE, "", Returned(logs), FALSE, "")
    /\ UNCHANGED <<ctrl, last_advice>>

\* role_assign, lines 178-188: the call the Role Assigner receives.
RoleAssignCall(advice) ==
    Call("role_assigner", GroupMembers, NoManagerArg, "", advice,
         task_description, agents.ROLE_ASSIGNMENT.name)

\* step, lines 121-125: EXPERT RECRUITMENT.
role_assign(p) ==
    /\ loc[p].pc = "role_assign"
    /\ CanRun(p)
    /\ LET call == RoleAssignCall(loc[p].advice)
       IN \/ \E roster \in Rosters :
               /\ loc' = [loc EXCEPT ![p].pc = "decision_making",
                                     ![p].agents = roster,
                                     ![p].calls = Append(@, call),
                                     ![p].logs = Append(@, LogEntry("module", "Role Assigner", roster))]
               /\ UNCHANGED <<ctrl, ret, last_advice>>
          \/ Abort(p, "RoleAssignerError", loc[p].logs)

\* step, lines 130-134: what step passes to decision_making.  The method's
\* parameters are (agents, manager, previous_plan, advice = "No advice yet.");
\* the non-dynamic branch passes three positional arguments.
IsDynamic == decision_maker = DynamicDecisionMaker
DecisionMakingArgs(previous_plan, advice) ==
    IF IsDynamic
    THEN [manager |-> agents.MANAGER, previous_plan |-> previous_plan, advice |-> advice]
    ELSE [manager |-> Str(previous_plan), previous_plan |-> advice, advice |-> NoAdvice]

\* decision_making, lines 190-215: the astep call the Decision Maker receives.
AstepCall(ags, manager, previous_plan, advice) ==
    IF manager.cls = ManagerAgent
    THEN Call("decision_maker", ags, manager, previous_plan, advice, task_description, "astep")
    ELSE Call("decision_maker", ags, NoManagerArg, previous_plan, advice, task_description, "astep")

\* step, lines 128-134, up to the await inside decision_making.
decision_making(p) ==
    /\ loc[p].pc = "decision_making"
    /\ CanRun(p)
    /\ IF IsDynamic /\ "MANAGER" \notin DOMAIN agents
       THEN Abort(p, "KeyError", loc[p].logs)
       ELSE LET a == DecisionMakingArgs(loc[p].previous_plan, loc[p].advice)
            IN /\ loc' = [loc EXCEPT ![p].pc = "await",
                                     ![p].calls = Append(@, AstepCall(loc[p].agents, a.manager,
                                                                      a.previous_plan, a.advice))]
               /\ last_advice' = ""
               /\ UNCHANGED <<ctrl, ret>>

\* Variant of TakeFirst: an empty candidate list gives an empty plan.
TakeFirstOrBlank(candidates) ==
    IF Len(candidates) = 0
    THEN [exc |-> "none", plan |-> ""]
    ELSE [exc |-> "none", plan |-> candidates[1]]

\* Variant of TakeFirst: the last candidate is taken.
TakeLast(candidates) ==
    IF Len(candidates) = 0
    THEN [exc |-> "IndexError", plan |-> ""]
    ELSE [exc |-> "none", plan |-> candidates[Len(candidates)]]

\* step, line 140: plan = plan[0].content.
TakeFirst(candidates) ==
    IF Len(candidates) = 0
    THEN [exc |-> "IndexError", plan |-> ""]
    ELSE [exc |-> "none", plan |-> candidates[1]]

\* The await returns the candidates; step, lines 135-142.
astep_return(p) ==
    /\ loc[p].pc = "await"
    /\ CanRun(p)
    /\ \E candidates \in Candidates :
         LET first == TakeFirst(candidates)
         IN IF first.exc # "none"
            THEN Abort(p, first.exc, loc[p].logs)
            ELSE /\ loc' = [loc EXCEPT ![p].pc = "execute",
                                       ![p].candidates = candidates,
                                       ![p].plan = first.plan,
                                       ![p].logs = Append(@, LogEntry("module", "Decision Maker", first.plan))]
                 /\ UNCHANGED <<ctrl, ret, last_advice>>

\* The await raises: the Decision Maker fails, or the task is cancelled.
astep_raise(p) ==
    /\ loc[p].pc = "await"
    /\ CanRun(p)
    /\ \E exc \in {"DecisionMakerError", "CancelledError"} : Abort(p, exc, loc[p].logs)

\* Variant of execute: a failed Executor call is made again.
executeRetries(p) ==
    /\ loc[p].pc = "execute"
    /\ CanRun(p)
    /\ LET call == Call("executor", <<>>, NoManagerArg, "", "", "", loc[p].plan)
       IN \/ \E result \in Results :
               /\ loc' = [loc EXCEPT ![p].pc = "evaluate",
                                     ![p].result = result,
                                     ![p].candidates = <<>>,
                                     ![p].calls = Append(@, call),
                                     ![p].logs = Append(@, LogEntry("module", "Executor", result))]
               /\ UNCHANGED <<ctrl, ret, last_advice>>
          \/ /\ loc' = [loc EXCEPT ![p].calls = Append(@, call)]
             /\ UNCHANGED <<ctrl, ret, last_advice>>

\* step, lines 145-149, and execute, lines 264-268.
execute(p) ==
    /\ loc[p].pc = "execute"
    /\ CanRun(p)
    /\ LET call == Call("executor", <<>>, NoManagerArg, "", "", "", loc[p].plan)
       IN \/ \E result \in Results :
               /\ loc' = [loc EXCEPT ![p].pc = "evaluate",
                                     ![p].result = result,
                                     ![p].candidates = <<>>,
                                     ![p].calls = Append(@, call),
                                     ![p].logs = Append(@, LogEntry("module", "Executor", result))]
               /\ UNCHANGED <<ctrl, ret, last_advice>>
          \/ Abort(p, "ExecutorError", loc[p].logs)

\* step, line 166: all([s >= 8 for s in score]) builds the whole list first,
\* so one element that does not compare with an int raises TypeError.
CheckRaises(score) ==
    /\ score.kind = "list"
    /\ \E i \in DOMAIN score.seq : score.seq[i].t # "int"

\* Variant of GoodScore: any bool is accepted (the "score is True" test dropped).
GoodScoreAnyBool(score) ==
    /\ score.kind # "None"
    /\ \/ score.kind = "bool"
       \/ /\ score.kind = "list"
          /\ \A i \in DOMAIN score.seq : score.seq[i].v >= Threshold

\* Variant of GoodScore: a list must hold at least one rating.
GoodScoreNonEmpty(score) ==
    /\ score.kind # "None"
    /\ \/ score.kind = "bool" /\ score.b = TRUE
       \/ /\ score.kind = "list"
          /\ Len(score.seq) > 0
          /\ \A i \in DOMAIN score.seq : score.seq[i].v >= Threshold

\* Variant of GoodScore: a rating must exceed the threshold.
GoodScoreStrict(score) ==
    /\ score.kind # "None"
    /\ \/ score.kind = "bool" /\ score.b = TRUE
       \/ /\ score.kind = "list"
          /\ \A i \in DOMAIN score.seq : score.seq[i].v > Threshold

\* step, lines 164-167: the acceptance test.
GoodScore(score) ==
    /\ score.kind # "None"
    /\ \/ score.kind = "bool" /\ score.b = TRUE
       \/ /\ score.kind = "list"
          /\ \A i \in DOMAIN score.seq : score.seq[i].v >= Threshold

\* Variant of NextTurn: only an accepted round is counted.
NextTurnOnAccept(turn, good) == IF good THEN turn + 1 ELSE turn

\* step, line 175.
NextTurn(turn, good) == turn + 1

\* Variant of NextSuccess: success is assigned the verdict of the round.
NextSuccessVerdict(good) == good

\* step, lines 164-174: success after the accept/reject branch.
NextSuccess(good) == IF good THEN TRUE ELSE success

\* Variant of ReturnedSuccess: the verdict of the round is returned.
ReturnedVerdict(good, succ) == good

\* step, line 176: the third component of the returned tuple is self.success.
ReturnedSuccess(good, succ) == succ

\* Variant of TurnRead: the value read when step was called.
TurnReadAtCall(p) == loc[p].cnt0

\* step, line 175: self.cnt_turn is read where it is incremented.
TurnRead(p) == cnt_turn

\* step, lines 152-176, and evaluate, lines 270-294.
evaluate(p) ==
    /\ loc[p].pc = "evaluate"
    /\ CanRun(p)
    /\ LET call == Call("evaluator", <<>>, NoManagerArg, "", "", task_description, loc[p].result)
       IN \/ \E score \in Scores, advice \in EvalAdvices :
               LET logs == Append(loc[p].logs,
                                  LogEntry("agent", "evaluator", [score |-> score, advice |-> advice]))
               IN IF CheckRaises(score)
                  THEN Abort(p, "TypeError", logs)
                  ELSE LET good == GoodScore(score)
                           verdict == IF good THEN "Good score! Accept!" ELSE "Bad score! Reject!"
                           succ == NextSuccess(good)
                       IN /\ success' = succ
                          /\ cnt_turn' = NextTurn(TurnRead(p), good)
                          /\ loc' = [loc EXCEPT ![p] = IdleFrame]
                          /\ ret' = Ret("step", "none", FALSE, loc[p].result,
                                        Returned(Append(logs, LogEntry("agent", "system", verdict))),
                                        ReturnedSuccess(good, succ), call.arg)
                          /\ last_advice' = advice
                          /\ UNCHANGED <<max_turn, task_description, agents, decision_maker>>
          \/ Abort(p, "EvaluatorError", loc[p].logs)

\* Variant of IsDone: the turn budget is compared with >.
IsDoneStrict == cnt_turn > max_turn \/ success

\* Variant of IsDone: the success flag is not consulted.
IsDoneBudgetOnly == cnt_turn >= max_turn

\* is_done, lines 296-298.
IsDone == cnt_turn >= max_turn \/ success

is_done ==
    /\ ret' = Ret("is_done", "none", IsDone, "", <<>>, FALSE, "")
    /\ UNCHANGED <<ctrl, loc, last_advice>>

\* set_task_description, lines 300-301.
set_task_description(text) ==
    /\ task_description' = text
    /\ ret' = NoRet("set_task_description", "none")
    /\ UNCHANGED <<cnt_turn, max_turn, success, agents, decision_maker, loc, last_advice>>

\* Variant of reset: success is cleared with the turn counter.
resetClearsSuccess ==
    /\ cnt_turn' = 0
    /\ success' = FALSE
    /\ ret' = NoRet("reset", "none")
    /\ UNCHANGED <<max_turn, task_description, agents, decision_maker, loc, last_advice>>

\* reset, lines 303-305.
reset ==
    /\ cnt_turn' = 0
    /\ ret' = NoRet("reset", "none")
    /\ UNCHANGED <<max_turn, success, task_description, agents, decision_maker, loc,
                   last_advice>>

\* One step invocation, stage by stage.
step(p) ==
    \/ role_assign(p)
    \/ decision_making(p)
    \/ astep_return(p)
    \/ astep_raise(p)
    \/ execute(p)
    \/ evaluate(p)

\* A caller that serialises its calls (asyncio.run(step()) returns before the
\* next call is made): invocation 1 is the only one.
Next ==
    \/ AllIdle /\ StepCall(1)
    \/ step(1)
    \/ AllIdle /\ is_done
    \/ AllIdle /\ reset
    \/ \E text \in Tasks : AllIdle /\ set_task_description(text)

Spec == Init /\ [][Next]_vars

\* StartupCompany.run, startup_company.py lines 64-69: reset, then step while
\* is_done is false.  Where run stands is read off what the last call gave
\* it; an exception out of step ends run, and so does is_done returning true.
DriverNext ==
    \/ ret.op = "__init__" /\ reset
    \/ (ret.op = "reset" \/ (ret.op = "step" /\ ret.exc = "none")) /\ is_done
    \/ (ret.op = "is_done" /\ ret.done = FALSE) /\ StepCall(1)
    \/ step(1)

\* run is sequential code that keeps running, and every collaborator call
\* (the await included) returns or raises.
SpecDriver == Init /\ [][DriverNext]_vars /\ WF_vars(DriverNext)

\* Callers that do not serialise: several step coroutines of one controller
\* on one event loop (asyncio.gather), each started at any time and suspended
\* at its await while another runs.  What is enumerated here is how the
\* invocations interleave; the collaborators answer from narrower sets than
\* under Spec: the roster is the solver, the candidates are at most one plan,
\* the score is a bool, and the exceptions are those of the await (no
\* candidate, cancellation).  The controller is the dynamic one with its
\* manager, and max_turn, which step never reads, is fixed.
ConcAnswers ==
    /\ \A p \in Procs :
          /\ loc[p].pc \in {"decision_making", "await", "execute", "evaluate"} =>
                 loc[p].agents = <<BaseRoles.SOLVER>>
          /\ loc[p].candidates \in {<<>>, <<"plan1">>}
          /\ loc[p].result \in {"", "res1"}
    /\ ret.exc \in {"none", "pending", "IndexError", "CancelledError"}
    /\ ret.exc = "none" =>
          /\ ret.logs[4].content.score.kind = "bool"
          /\ ret.logs[4].content.advice = "ok"

NextConc == \E p \in Procs : (StepCall(p) \/ step(p)) /\ ConcAnswers'

InitConc ==
    /\ Init
    /\ max_turn = MaxTurns
    /\ agents = WithManager(Actor(ManagerAgent, "manager"))
    /\ decision_maker = DynamicDecisionMaker

SpecConc == InitConc /\ [][NextConc]_vars

\* ------------------------------------------------------------------ claims
\* What the last operation was, read off ret.
StepReturned == ret.op = "step" /\ ret.exc = "none"
StepRaised == ret.op = "step" /\ ret.exc \notin {"none", "pending"}
RetScore == ret.logs[4].content.score
RetVerdict == ret.logs[5].content
Accept == "Good score! Accept!"
Reject == "Bad score! Reject!"
\* Invocation p leaves step in this transition.
Leaves(p) == loc[p].pc # "idle" /\ loc'[p].pc = "idle"
AllAtLeast8(seq) == \A i \in DOMAIN seq : seq[i].t = "int" /\ seq[i].v >= 8
ExecutorCalls(calls) == {i \in DOMAIN calls : calls[i].callee = "executor"}

\* C1: every call of step that returns, accepted or rejected, leaves cnt_turn
\* one above its value when the call was made.
C1_StepAddsOneTurn ==
    [][\A p \in Procs :
          Leaves(p) /\ StepReturned' => cnt_turn' = loc[p].cnt0 + 1]_vars

C1_Witness ==
    StepReturned /\ RetVerdict = Reject /\ cnt_turn = 2

\* C2: is_done returns TRUE exactly when cnt_turn >= max_turn or success, and
\* the call changes no field of the controller.
C2_IsDoneValueAndPure ==
    [][ret'.op = "is_done" =>
          /\ ret'.done = (cnt_turn >= max_turn \/ success = TRUE)
          /\ UNCHANGED ctrl]_vars

C2_Witness ==
    ret.op = "is_done" /\ ret.done = TRUE /\ success = FALSE /\ cnt_turn = max_turn

\* C3: a step whose score is the boolean True leaves success true; a step
\* whose score is the boolean False leaves success as it was.
C3_BooleanScore ==
    [][\A p \in Procs :
          Leaves(p) /\ StepReturned' /\ RetScore'.kind = "bool" =>
              IF RetScore'.b THEN success' = TRUE ELSE success' = success]_vars

C3_Witness ==
    StepReturned /\ RetScore = BoolScore(FALSE) /\ success = FALSE /\ cnt_turn = 1

\* C4: with a sequence of numeric ratings the round is accepted (success set)
\* exactly when every rating is at least 8; otherwise success is left alone.
C4_RatingsScore ==
    [][\A p \in Procs :
          Leaves(p) /\ StepReturned' /\ RetScore'.kind = "list" =>
              IF AllAtLeast8(RetScore'.seq)
              THEN RetVerdict' = Accept /\ success' = TRUE
              ELSE RetVerdict' = Reject /\ success' = success]_vars

C4_Witness ==
    /\ StepReturned
    /\ RetScore = ListScore(<<IntElem(9), IntElem(8), IntElem(10)>>)
    /\ RetVerdict = Accept
    /\ success = TRUE

\* C5: whatever score the Evaluator hands back that is neither a bool nor a
\* sequence of numbers, step returns: the round is rejected, success is left
\* alone and the turn is counted.
Malformed(score) ==
    \/ score.kind \in {"None", "int", "str"}
    \/ score.kind = "list" /\ \E i \in DOMAIN score.seq : score.seq[i].t # "int"
C5_MalformedScoreRejected ==
    [][\A p \in Procs :
          (/\ Leaves(p)
           /\ loc[p].pc = "evaluate"
           /\ Len(ret'.logs) >= 4
           /\ Malformed(ret'.logs[4].content.score))
          => (/\ StepReturned'
              /\ RetVerdict' = Reject
              /\ success' = success
              /\ cnt_turn' = loc[p].cnt0 + 1)]_vars

\* C6: the Decision Maker is called with a manager exactly when the role
\* mapping has a MANAGER entry and the Decision Maker is the dynamic one; in
\* every other case it is called without one, and the round goes on.
C6_ManagerDispatch ==
    [][\A p \in Procs :
          loc[p].pc = "decision_making" /\ loc'[p].pc # "decision_making" =>
              /\ loc'[p].pc = "await"
              /\ (loc'[p].calls[2].manager # NoManagerArg) <=>
                     ("MANAGER" \in DOMAIN agents /\ decision_maker = DynamicDecisionMaker)]_vars

\* C7: a step that ends with an exception (raised by a stage, by the
\* acceptance test, or a cancellation at the await) leaves cnt_turn and
\* success at the values they had when step was called.
C7_AbortChangesNothing ==
    [][\A p \in Procs :
          Leaves(p) /\ StepRaised' =>
              cnt_turn' = loc[p].cnt0 /\ success' = loc[p].success0]_vars

C7_Witness ==
    StepRaised /\ ret.exc = "CancelledError" /\ cnt_turn = 1 /\ success = TRUE

\* C8: a round whose Role Assigner returned no actor never gets past Role
\* Assignment (step raises before Decision Making).
C8_EmptyRosterAborts ==
    \A p \in Procs :
        loc[p].pc \in {"decision_making", "await", "execute", "evaluate"} =>
            Len(loc[p].agents) > 0

\* C9: a round whose Decision Maker returned no candidate never reaches the
\* Executor: step raises (plan[0] on the empty list) with no Executor or
\* Evaluator call made and cnt_turn and success as they were.
C9_EmptyPlanAborts ==
    [][\A p \in Procs :
          /\ loc'[p].pc = "execute" => Len(loc'[p].candidates) > 0
          /\ Leaves(p) /\ ret'.exc = "IndexError" =>
                /\ loc[p].pc = "await"
                /\ \A i \in DOMAIN loc[p].calls :
                       loc[p].calls[i].callee \notin {"executor", "evaluator"}
                /\ cnt_turn' = loc[p].cnt0
                /\ success' = loc[p].success0]_vars

C9_Witness ==
    StepRaised /\ ret.exc = "IndexError" /\ cnt_turn = 1

\* C10: the Executor is called once per round, with the first candidate the
\* Decision Maker returned, and the Evaluator receives the result the
\* Executor returned.
C10_FirstPlanOnly ==
    [][\A p \in Procs :
          /\ loc[p].pc = "execute" /\ loc'[p].pc = "evaluate" =>
                /\ Cardinality(ExecutorCalls(loc'[p].calls)) = 1
                /\ loc'[p].calls[Len(loc'[p].calls)].callee = "executor"
                /\ loc'[p].calls[Len(loc'[p].calls)].arg = loc[p].candidates[1]
          /\ loc[p].pc = "evaluate" /\ Leaves(p) /\ StepReturned' =>
                ret'.evaluated = loc[p].result /\ ret'.result = loc[p].result]_vars

C10_Witness ==
    /\ loc[1].pc = "execute"
    /\ loc[1].candidates = <<"plan1", "plan2">>
    /\ loc[1].plan = "plan1"

\* C11: reset sets cnt_turn to 0 and leaves success, max_turn,
\* task_description and the role mapping as they were, also when success is
\* already true.
C11_ResetOnlyZeroesTurns ==
    [][ret'.op = "reset" =>
          /\ cnt_turn' = 0
          /\ UNCHANGED <<success, max_turn, task_description, agents>>]_vars

C11_Witness ==
    ret.op = "reset" /\ success = TRUE /\ cnt_turn = 0 /\ task_description = "task1"

\* C12: success starts false and, once true, stays true through every step
\* (accepted, rejected or aborted), reset and set_task_description; is_done
\* then answers true, whatever cnt_turn is.
C12_SuccessMonotonic ==
    /\ success = FALSE
    /\ [][success = TRUE =>
             /\ success' = TRUE
             /\ ret'.op = "is_done" => ret'.done = TRUE]_vars

C12_Witness ==
    /\ ret.op = "is_done" /\ ret.done = TRUE
    /\ success = TRUE /\ cnt_turn = 0 /\ max_turn = 2

\* C18: the success flag step returns is the success field after the round,
\* not the verdict: a rejected round returns true when success was already
\* true.
C18_ReturnsCumulativeSuccess ==
    [][\A p \in Procs :
          Leaves(p) /\ StepReturned' =>
              /\ ret'.success = success'
              /\ (RetVerdict' = Reject /\ success = TRUE) => ret'.success = TRUE]_vars

C18_Witness ==
    StepReturned /\ RetVerdict = Reject /\ ret.success = TRUE /\ cnt_turn = 1

\* C19: an empty list of ratings is accepted: step returns, success is true
\* and the is_done condition holds.
C19_EmptyRatingsAccepted ==
    [][\A p \in Procs :
          (/\ Leaves(p)
           /\ loc[p].pc = "evaluate"
           /\ Len(ret'.logs) >= 4
           /\ ret'.logs[4].content.score = ListScore(<<>>))
          => (/\ StepReturned'
              /\ RetVerdict' = Accept
              /\ success' = TRUE
              /\ ret'.success = TRUE
              /\ (cnt_turn' >= max_turn' \/ success' = TRUE))]_vars

C19_Witness ==
    /\ StepReturned
    /\ RetScore = ListScore(<<>>)
    /\ RetVerdict = Accept
    /\ success = TRUE
    /\ cnt_turn < max_turn

\* C13: the advice the Evaluator returned in one completed round is the
\* advice the Role Assigner and the Decision Maker are called with in the
\* next round of the same controller.
C13_AdviceCarriedOver ==
    [][\A p \in Procs :
          /\ (loc[p].pc = "role_assign" /\ loc'[p].pc = "decision_making"
                  /\ last_advice # "")
             => loc'[p].calls[1].advice = last_advice
          /\ (loc[p].pc = "decision_making" /\ loc'[p].pc = "await"
                  /\ last_advice # "")
             => loc'[p].calls[2].advice = last_advice]_vars

\* C15: in the standard protocol the Decision Maker receives step's
\* previous_plan as previous_plan and step's advice as advice.
C15_StandardProtocolArguments ==
    \A p \in Procs :
        (loc[p].pc = "await" /\ loc[p].calls[2].manager = NoManagerArg) =>
            /\ loc[p].calls[2].previous_plan = loc[p].previous_plan
            /\ loc[p].calls[2].advice = loc[p].advice

\* C16: in a round the Role Assigner, the Decision Maker, the Executor and the
\* Evaluator are called in that order, each once and each after the one
\* before it returned; a round begins only when none is in progress and ends
\* by returning after the Evaluation or by an exception.
StageOrder == <<"role_assigner", "decision_maker", "executor", "evaluator">>
StageSteps ==
    {<<"idle", "role_assign">>, <<"role_assign", "decision_making">>,
     <<"decision_making", "await">>, <<"await", "execute">>,
     <<"execute", "evaluate">>}
CallsMadeAt(pc) ==
    CASE pc \in {"idle", "role_assign"} -> 0
      [] pc = "decision_making" -> 1
      [] pc \in {"await", "execute"} -> 2
      [] pc = "evaluate" -> 3
Callees(calls) == [i \in DOMAIN calls |-> calls[i].callee]
LogNames(logs) == [i \in DOMAIN logs |-> logs[i].name]
C16_StagesInOrder ==
    [][\A p \in Procs :
          /\ Callees(loc'[p].calls) = SubSeq(StageOrder, 1, CallsMadeAt(loc'[p].pc))
          /\ loc'[p].pc # loc[p].pc =>
                \/ <<loc[p].pc, loc'[p].pc>> \in StageSteps
                \/ loc'[p].pc = "idle"
          /\ (loc[p].pc = "idle" /\ loc'[p].pc # "idle") => AllIdle
          /\ (Leaves(p) /\ StepReturned') =>
                /\ loc[p].pc = "evaluate"
                /\ ret'.evaluated = loc[p].result
                /\ LogNames(ret'.logs) =
                       <<"Role Assigner", "Decision Maker", "Executor", "evaluator", "system">>]_vars

C16_Witness ==
    /\ loc[1].pc = "evaluate"
    /\ Callees(loc[1].calls) = <<"role_assigner", "decision_maker", "executor">>
    /\ cnt_turn = 1

\* C14: run ends with is_done true (or with an exception out of step): until
\* then run can always take its next step, and every step of run lowers
\* DriverRank, a natural number; so run cannot go on forever.  When it has
\* ended, at most max_turn rounds were made, and exactly max_turn, with
\* cnt_turn = max_turn, when no round was accepted.
DriverDone == ret.op = "is_done" /\ ret.done = TRUE
\* Rounds still allowed, then the distance to the end of the current round.
DriverRank ==
    IF ret.op = "__init__" THEN (max_turn + 1) * 8
    ELSE (max_turn - cnt_turn) * 8 +
         (CASE loc[1].pc = "role_assign" -> 5
            [] loc[1].pc = "decision_making" -> 4
            [] loc[1].pc = "await" -> 3
            [] loc[1].pc = "execute" -> 2
            [] loc[1].pc = "evaluate" -> 1
            [] loc[1].pc = "idle" ->
                 IF ret.op = "reset" \/ StepReturned THEN 7
                 ELSE IF ret.op = "is_done" /\ ret.done = FALSE THEN 6
                 ELSE 0)
C14_DriverTerminates ==
    /\ [](DriverDone =>
            /\ cnt_turn <= max_turn
            /\ success = FALSE => cnt_turn = max_turn)
    /\ [](DriverDone \/ StepRaised \/ ENABLED DriverNext)
    /\ [](DriverRank >= 0)
    /\ [][DriverRank' < DriverRank]_vars

C14_Witness ==
    DriverDone /\ success = FALSE /\ cnt_turn = max_turn /\ max_turn = 2

\* C17: under run, cnt_turn stays within 0..max_turn, and while a round is in
\* progress success is false and the turn budget is not used up.
C17_DriverBounds ==
    /\ cnt_turn \in 0..max_turn
    /\ \A p \in Procs :
          loc[p].pc # "idle" => success = FALSE /\ cnt_turn < max_turn

C17_Witness ==
    loc[1].pc = "evaluate" /\ cnt_turn = 1 /\ max_turn = 2 /\ success = FALSE

\* C20: with overlapping step invocations no update is lost: each invocation
\* that returns adds exactly one to cnt_turn as it then stands and sets
\* success if its round was accepted, and nothing else changes either; so
\* after k returns cnt_turn is its first value plus k, and success is true
\* exactly if it was true or one of the k rounds was accepted.
Returns(p) == Leaves(p) /\ StepReturned'
C20_NoLostUpdate ==
    [][/\ \A p \in Procs :
             Returns(p) =>
                 /\ cnt_turn' = cnt_turn + 1
                 /\ success' = (success \/ RetVerdict' = Accept)
       /\ (\A p \in Procs : ~Returns(p)) => UNCHANGED <<cnt_turn, success>>]_vars

C20_Witness ==
    /\ StepReturned
    /\ cnt_turn = 2
    /\ loc[1].pc = "idle" /\ loc[1].cnt0 = 0
    /\ loc[2].pc = "await" /\ loc[2].cnt0 = 0

====
